---- MODULE Spec2Model ----
(***************************************************************************)
(* Model of glutton.go: the rule-driven handler registrar                  *)
(* (Glutton.registerHandlers), the per-connection dispatch callback it     *)
(* installs, and the lifecycle operations Init, Start and Shutdown.        *)
(***************************************************************************)
EXTENDS Naturals, Sequences, FiniteSets, TLC

\* ------------------------------------------------------------------ bounds
MaxRules == 2          \* longest rule list explored by the registrar model
MaxConns == 1          \* connections the packet engine dispatches
MaxShutdownCalls == 1  \* Shutdown calls made from outside Start
MaxIDCalls == 3        \* makeID calls against one storage directory

\* --------------------------------------------------------------- constants
Nil == "<nil>"

ConnHandlerType == "conn_handler"
ProxyTCP == "proxy_tcp"
ProxySSH == "proxy_ssh"
ProxyTelnet == "proxy_telnet"

\* Rule fields the registrar reads (freki.Rule: Type, Name, Target).
Rule(type, name, target) == [Type |-> type, Name |-> name, Target |-> target]

RuleNames == {ProxyTCP, ProxySSH, ProxyTelnet, "http"}
RuleTargets == {"", ProxyTCP, "8080"}

\* Every conn_handler rule over the names and targets above, and one rule of
\* another type.
RuleUniverse ==
    {Rule(ConnHandlerType, n, t) : n \in RuleNames, t \in RuleTargets}
        \cup {Rule("rewrite", "http", "8080")}

RECURSIVE SeqsUpTo(_, _)
SeqsUpTo(S, n) ==
    IF n = 0 THEN {<<>>}
    ELSE LET shorter == SeqsUpTo(S, n - 1)
         IN  shorter \cup {Append(s, x) : s \in {q \in shorter : Len(q) = n - 1}, x \in S}

\* Names under which mapProtocolHandlers may have registered a handler.
BuiltinNames == {ProxyTCP, ProxySSH, ProxyTelnet, "8080"}

VARIABLES
    rules,            \* g.rules: the rule list (rule.Target is assigned by the registrar)
    rules0,           \* the rule list as loaded by New
    builtins,         \* names mapProtocolHandlers registers
    proxyFails,       \* indices of rules whose proxy construction returns an error
    producersEnabled, \* viper "producers.enabled"
    protocolHandlers, \* g.protocolHandlers: name -> handler (Nil for a nil func)
    sshProxy,         \* g.sshProxy
    telnetProxy,      \* g.telnetProxy
    Producer,         \* g.Producer: Nil or "producer"
    connHandlers,     \* names with a callback in the packet engine
    registered,       \* indices of the rules RegisterConnHandler was called for
    idx,              \* position of the registerHandlers loop
    phase,            \* progress of New/Init
    ctxDone,          \* g.ctx is cancelled
    engine,           \* packet engine: "none", "new", "ready", "running", "stopped"
    conns,            \* per connection: the callback invocation and its watchdog
    shutdown,         \* per Shutdown caller: position in Shutdown
    extCalls,         \* Shutdown calls made so far from outside Start
    graceWaits,       \* completed time.Sleep(2s) of Shutdown
    engineStops,      \* calls of g.Processor.Shutdown
    start,            \* position of Start
    monitor,          \* monitor goroutine: "off", "running", "stopped"
    atCancel,         \* connections whose handler was blocked on I/O when g.ctx was cancelled
    id,               \* g.id of the instance of the latest makeID call
    varDir,           \* the directory viper "var-dir" exists
    idFile,           \* the file glutton.id: [exists, bytes]
    idResult,         \* what the latest makeID call returned
    idCalls,          \* makeID calls made so far
    idWrites,         \* calls of ioutil.WriteFile on glutton.id so far
    persisted,        \* the identity first written in full to glutton.id (<<>>: none yet)
    produced          \* outcome of the latest Produce call ("none": no call yet)

regVars == <<rules, protocolHandlers, sshProxy, telnetProxy, connHandlers, registered, idx>>
idVars == <<id, varDir, idFile, idResult, idCalls, idWrites, persisted>>
envVars == <<rules0, builtins, proxyFails, producersEnabled, idVars, produced>>
vars == <<rules, rules0, builtins, proxyFails, producersEnabled, protocolHandlers,
          sshProxy, telnetProxy, Producer, connHandlers, registered, idx, phase,
          ctxDone, engine, conns, shutdown, extCalls, graceWaits, engineStops,
          start, monitor, atCancel, id, varDir, idFile, idResult, idCalls, idWrites,
          persisted, produced>>

\* ------------------------------------------------------------- Go map ops
\* m[k] of a Go map: the zero value (nil) for an absent key.
MapGet(m, k) == IF k \in DOMAIN m THEN m[k] ELSE Nil
\* m[k] = v
MapSet(m, k, v) == [x \in DOMAIN m \cup {k} |-> IF x = k THEN v ELSE m[x]]
\* delete(m, k)
MapDelete(m, k) == [x \in DOMAIN m \ {k} |-> m[x]]

\* ------------------------------------------------------------------ makeID
\* uuid.Size: a UUID is an array of 16 bytes, indexed from 0.
UUIDSize == 16

\* Byte values the random source and a foreign file are drawn from.
ByteValues == {0, 255}

Repeat(b, n) == [i \in 1..n |-> b]

\* The zero value of g.id.
ZeroUUID == [i \in 0..(UUIDSize - 1) |-> 0]

\* uuid.NewV4 on random bytes all equal to b: version 4 in the high nibble
\* of u[6], the RFC 4122 variant in the top bits of u[8].
NewV4(b) ==
    [i \in 0..(UUIDSize - 1) |->
        IF i = 6 THEN (b % 16) + 64
        ELSE IF i = 8 THEN (b % 64) + 128
        ELSE b]

\* u.Bytes(): the bytes of the array as a slice.
Bytes(u) == [i \in 1..UUIDSize |-> u[i - 1]]

\* uuid.FromBytes: an error unless the input is exactly 16 bytes long.
FromBytes(buff) ==
    IF Len(buff) # UUIDSize
    THEN [ok |-> FALSE, u |-> ZeroUUID]
    ELSE [ok |-> TRUE, u |-> [i \in 0..(UUIDSize - 1) |-> buff[i + 1]]]

AbsentFile == [exists |-> FALSE, bytes |-> <<>>]
File(bytes) == [exists |-> TRUE, bytes |-> bytes]

\* Contents glutton.id may have before the first call.
ForeignContents ==
    {Repeat(b, n) : b \in ByteValues, n \in {0, UUIDSize - 1, UUIDSize, UUIDSize + 1}}
        \cup {Bytes(NewV4(b)) : b \in ByteValues}

\* Bytes a failing ioutil.WriteFile may have written before the error.
WrittenBeforeError == {0, 8, UUIDSize}

\* Variant of the test below that also takes an unparsable file for absent.
StatNotExistOrCorrupt(f) == IF f.exists THEN Len(f.bytes) # UUIDSize ELSE TRUE

\* os.IsNotExist(err) on the error of os.Stat(filePath), line 127.
StatNotExist(f) == ~f.exists

\* The identity first persisted, after glutton.id went from f to g in a call
\* that generated u.
FirstPersisted(p, g, u) ==
    IF p = <<>> /\ g.exists /\ g.bytes = Bytes(u) THEN Bytes(u) ELSE p

\* One call of makeID on a fresh instance (g.id zero), lines 121-150.
makeID ==
    /\ idCalls < MaxIDCalls
    /\ idCalls' = idCalls + 1
    /\ \/ /\ idResult' = "mkdir error"                  \* line 124
          /\ id' = ZeroUUID
          /\ UNCHANGED <<varDir, idFile, idWrites, persisted>>
       \/ /\ varDir' = TRUE
          /\ \/ /\ StatNotExist(idFile)                   \* lines 127-131
                /\ \E b \in ByteValues :
                      LET u == NewV4(b)
                      IN  /\ id' = u
                          /\ idWrites' = idWrites + 1
                          /\ \/ /\ idFile' = File(Bytes(u))
                                /\ idResult' = "ok"
                             \/ /\ idFile' = idFile      \* the file could not be created
                                /\ idResult' = "write error"
                             \/ /\ \E n \in WrittenBeforeError :
                                      idFile' = File(SubSeq(Bytes(u), 1, n))
                                /\ idResult' = "write error"
                          /\ persisted' = FirstPersisted(persisted, idFile', u)
             \/ /\ ~StatNotExist(idFile)                  \* lines 132-147
                /\ \/ /\ idResult' \in {"stat error", "open error", "read error"}
                      /\ id' = ZeroUUID
                   \/ /\ FromBytes(idFile.bytes).ok
                      /\ id' = FromBytes(idFile.bytes).u
                      /\ idResult' = "ok"
                   \/ /\ ~FromBytes(idFile.bytes).ok
                      /\ id' = FromBytes(idFile.bytes).u
                      /\ idResult' = "parse error"
                /\ UNCHANGED <<idFile, idWrites, persisted>>
             \/ /\ ~idFile.exists                         \* os.Stat fails otherwise
                /\ idResult' = "stat error"
                /\ id' = ZeroUUID
                /\ UNCHANGED <<idFile, idWrites, persisted>>
    /\ UNCHANGED <<rules, rules0, builtins, proxyFails, producersEnabled, protocolHandlers,
                   sshProxy, telnetProxy, Producer, connHandlers, registered, idx, phase>>
    /\ UNCHANGED <<ctxDone, engine, conns, shutdown, extCalls, graceWaits, engineStops, start,
                   monitor, atCancel, produced>>

\* --------------------------------------------------------- registerHandlers
Eligible(rule) == rule.Type = ConnHandlerType /\ rule.Target # ""

\* Variant of the case below that leaves the "proxy_tcp" entry in place.
ProxyTCPNoDelete(ph, rule) == MapSet(ph, rule.Target, MapGet(ph, ProxyTCP))

\* case "proxy_tcp": the registry after lines 163-164.
ProxyTCPRename(ph, rule) ==
    MapDelete(MapSet(ph, rule.Target, MapGet(ph, ProxyTCP)), ProxyTCP)

\* The value of `handler` when the switch is left without `continue`.
HandlerName(rule) ==
    CASE rule.Name = ProxyTCP -> rule.Target
      [] rule.Name = ProxySSH -> rule.Name
      [] rule.Name = ProxyTelnet -> rule.Name
      [] OTHER -> rule.Target

IsProxyKind(rule) == rule.Name \in {ProxySSH, ProxyTelnet}

\* Variant of the test below that falls through on a failed construction.
SkipsOnFailureNever(rule, fails) == FALSE

\* The switch of lines 160-188 skips the rule (continue) exactly when the
\* proxy construction failed.
SkipsOnFailure(rule, fails) == IsProxyKind(rule) /\ fails

\* The nil test of lines 190-193.
HandlerFound(ph, handler) == MapGet(ph, handler) # Nil

\* Variant of the assignment below that writes to a copy of the rule.
TargetRewrittenOnCopy(rule) == rule

\* rule.Target = handler (lines 174 and 183): g.rules holds pointers, so the
\* rule of the list itself is written.
TargetRewritten(rule) == [rule EXCEPT !.Target = rule.Name]

\* One iteration of the loop of registerHandlers on the registrar state
\* st = [ph, ssh, telnet, ch], for rule `rule` whose proxy construction
\* fails iff `fails`.  Yields the new state, the rule as left behind and
\* whether RegisterConnHandler was called.
RuleStep(st, rule, fails) ==
    IF ~Eligible(rule)
    THEN [st |-> st, rule |-> rule, reg |-> FALSE]
    ELSE IF SkipsOnFailure(rule, fails)
    THEN [st |-> st, rule |-> rule, reg |-> FALSE]
    ELSE
      LET ph1 == IF rule.Name = ProxyTCP THEN ProxyTCPRename(st.ph, rule) ELSE st.ph
          ssh1 == IF rule.Name = ProxySSH THEN rule.Target ELSE st.ssh
          tel1 == IF rule.Name = ProxyTelnet THEN rule.Target ELSE st.telnet
          rule1 == IF IsProxyKind(rule) THEN TargetRewritten(rule) ELSE rule
          handler == HandlerName(rule)
          found == HandlerFound(ph1, handler)
      IN  [st |-> [ph |-> ph1, ssh |-> ssh1, telnet |-> tel1,
                   ch |-> IF found THEN st.ch \cup {handler} ELSE st.ch],
           rule |-> rule1,
           reg |-> found]

\* registerHandlers as a whole on the rule list rs with failing indices F:
\* the final registrar state and the set of indices with a callback.
RECURSIVE RegisterFrom(_, _, _, _, _)
RegisterFrom(st, rs, F, i, regd) ==
    IF i > Len(rs) THEN [st |-> st, registered |-> regd]
    ELSE LET r == RuleStep(st, rs[i], i \in F)
         IN  RegisterFrom(r.st, rs, F, i + 1, IF r.reg THEN regd \cup {i} ELSE regd)

RegistrarState == [ph |-> protocolHandlers, ssh |-> sshProxy, telnet |-> telnetProxy,
                   ch |-> connHandlers]

\* ------------------------------------------------------------------- state
ConnIds == 1..MaxConns
Callers == {"ext", "start"}

\* md is "unset" until the callback looks at it (line 201).
IdleConn == [pc |-> "idle", name |-> Nil, md |-> "unset", wd |-> "none", closed |-> FALSE,
             logged |-> FALSE, deadline |-> FALSE, invoked |-> FALSE,
             hkind |-> Nil, hres |-> Nil, signals |-> 0, result |-> Nil]

InitCommon ==
    /\ rules = rules0
    /\ protocolHandlers = <<>>
    /\ sshProxy = Nil
    /\ telnetProxy = Nil
    /\ Producer = Nil
    /\ connHandlers = {}
    /\ registered = {}
    /\ idx = 1
    /\ phase = "created"
    /\ ctxDone = FALSE
    /\ engine = "none"
    /\ conns = [c \in ConnIds |-> IdleConn]
    /\ shutdown = [k \in Callers |-> "idle"]
    /\ extCalls = 0
    /\ graceWaits = 0
    /\ engineStops = 0
    /\ start = "idle"
    /\ monitor = "off"
    /\ atCancel = {}
    /\ produced = "none"

\* New has returned: makeID ran once on an empty storage directory.
InitIdentity ==
    /\ id = NewV4(0)
    /\ varDir = TRUE
    /\ idFile = File(Bytes(NewV4(0)))
    /\ idResult = "ok"
    /\ idCalls = 1
    /\ idWrites = 1
    /\ persisted = Bytes(NewV4(0))

\* makeID explored on every storage directory: missing, empty, or holding a
\* glutton.id of any of the contents above.
InitID ==
    /\ rules0 = <<>>
    /\ builtins = {}
    /\ proxyFails = {}
    /\ producersEnabled = FALSE
    /\ InitCommon
    /\ varDir \in BOOLEAN
    /\ idFile \in IF varDir THEN {AbsentFile} \cup {File(c) : c \in ForeignContents}
                         ELSE {AbsentFile}
    /\ id = ZeroUUID
    /\ idResult = "none"
    /\ idCalls = 0
    /\ idWrites = 0
    /\ persisted = IF idFile.exists /\ Len(idFile.bytes) = UUIDSize THEN idFile.bytes ELSE <<>>

NextID == makeID

SpecID == InitID /\ [][NextID]_vars

ProxyRuleIndices(rs) == {i \in 1..Len(rs) : Eligible(rs[i]) /\ IsProxyKind(rs[i])}

\* The registrar explored on every rule list up to MaxRules.
InitReg ==
    /\ rules0 \in SeqsUpTo(RuleUniverse, MaxRules)
    /\ builtins \in SUBSET BuiltinNames
    /\ proxyFails \in SUBSET ProxyRuleIndices(rules0)
    /\ producersEnabled \in BOOLEAN
    /\ InitCommon
    /\ InitIdentity

\* Init: handler creation of mapProtocolHandlers, then the loop starts.
GluttonInit ==
    /\ phase = "created"
    /\ \/ /\ producersEnabled
          /\ Producer' = "producer"
          /\ phase' = "registering"
          /\ protocolHandlers' = [k \in builtins |-> k]
       \/ /\ producersEnabled       \* producer.New returns an error
          /\ Producer' = Nil
          /\ phase' = "initfailed"
          /\ protocolHandlers' = protocolHandlers
       \/ /\ ~producersEnabled
          /\ Producer' = Nil
          /\ phase' = "registering"
          /\ protocolHandlers' = [k \in builtins |-> k]
    /\ engine' = "new"
    /\ UNCHANGED <<rules, sshProxy, telnetProxy, connHandlers, registered, idx>>
    /\ UNCHANGED envVars
    /\ UNCHANGED <<ctxDone, conns, shutdown, extCalls, graceWaits, engineStops, start, monitor,
                   atCancel>>

\* One iteration of `for _, rule := range g.rules`.
RegisterRule ==
    /\ phase = "registering"
    /\ idx <= Len(rules)
    /\ LET r == RuleStep(RegistrarState, rules[idx], idx \in proxyFails)
       IN  /\ protocolHandlers' = r.st.ph
           /\ sshProxy' = r.st.ssh
           /\ telnetProxy' = r.st.telnet
           /\ connHandlers' = r.st.ch
           /\ rules' = [rules EXCEPT ![idx] = r.rule]
           /\ registered' = IF r.reg THEN registered \cup {idx} ELSE registered
    /\ idx' = idx + 1
    /\ UNCHANGED <<Producer, phase>>
    /\ UNCHANGED envVars
    /\ UNCHANGED <<ctxDone, engine, conns, shutdown, extCalls, graceWaits, engineStops, start,
                   monitor, atCancel>>

\* The loop is over; Init returns g.Processor.Init().
InitReturn ==
    /\ phase = "registering"
    /\ idx > Len(rules)
    /\ \/ /\ phase' = "initialized"
          /\ engine' = "ready"
       \/ /\ phase' = "initfailed"
          /\ engine' = "new"
    /\ UNCHANGED <<regVars, Producer>>
    /\ UNCHANGED envVars
    /\ UNCHANGED <<ctxDone, conns, shutdown, extCalls, graceWaits, engineStops, start, monitor,
                   atCancel>>

NextReg == GluttonInit \/ RegisterRule \/ InitReturn

SpecReg == InitReg /\ [][NextReg]_vars

\* ------------------------------------------------------ dispatch callback
\* The rule list of the running system: a rule that targets the generic
\* relay by name, then the relay rule itself.  Callbacks end up registered
\* under "proxy_tcp" and under "8080".
LifecycleRules ==
    <<Rule(ConnHandlerType, "http", ProxyTCP), Rule(ConnHandlerType, ProxyTCP, "8080")>>

Init ==
    /\ rules0 = LifecycleRules
    /\ builtins = BuiltinNames
    /\ proxyFails = {}
    /\ producersEnabled \in BOOLEAN
    /\ InitCommon
    /\ InitIdentity

\* A handler either may return at any time (or never), or is blocked on I/O
\* until the connection is closed.
HandlerKinds == {"returns", "blocks"}

otherRunVars == <<ctxDone, engine, shutdown, extCalls, graceWaits, engineStops, start, monitor,
                  atCancel>>
initVars == <<rules, rules0, builtins, proxyFails, producersEnabled, protocolHandlers,
              sshProxy, telnetProxy, Producer, connHandlers, registered, idx, phase, idVars,
              produced>>

Return(c, err) == [conns EXCEPT ![c].pc = "returned", ![c].result = err]

\* The packet engine invokes the callback registered under `name`;
\* lines 196-204: SplitHostPort, then the md == nil test.
\* Variant without the md == nil test.
MdNilProceeds(c, name) == [conns EXCEPT ![c].pc = "log", ![c].name = name, ![c].md = Nil]

MdNilReturns(c, name) ==
    [conns EXCEPT ![c].pc = "returned", ![c].name = name, ![c].md = Nil, ![c].result = "nil"]

Dispatch(c) ==
    /\ engine = "running"
    /\ conns[c].pc = "idle"
    /\ \A d \in ConnIds : d < c => conns[d].pc # "idle"   \* ids in dispatch order
    /\ \E name \in connHandlers :
        \/ conns' = [conns EXCEPT ![c].pc = "returned", ![c].name = name,
                                  ![c].result = "address error"]
        \/ conns' = MdNilReturns(c, name)
        \/ conns' = [conns EXCEPT ![c].pc = "log", ![c].name = name, ![c].md = "md"]
    /\ UNCHANGED otherRunVars
    /\ UNCHANGED initVars

\* Variant that goes on after a failed g.Producer.Log.
LogFailureIgnored(c) == [conns EXCEPT ![c].pc = "spawn"]

\* Lines 213-218: g.Producer.Log when a producer is configured.
LogFailure(c) == Return(c, "telemetry error")

EmitTelemetry(c) ==
    /\ conns[c].pc = "log"
    /\ \/ /\ Producer = Nil
          /\ conns' = [conns EXCEPT ![c].pc = "spawn"]
       \/ /\ Producer # Nil
          /\ conns' = [conns EXCEPT ![c].pc = "spawn", ![c].logged = TRUE]
       \/ /\ Producer # Nil
          /\ conns' = LogFailure(c)
    /\ UNCHANGED otherRunVars
    /\ UNCHANGED initVars

\* Variant that starts no watchdog.
SpawnWatchdogMissing(c) ==
    /\ conns[c].pc = "spawn"
    /\ conns' = [conns EXCEPT ![c].pc = "deadline"]
    /\ UNCHANGED otherRunVars
    /\ UNCHANGED initVars

\* Lines 220-221: done := make(chan struct{}); go g.closeOnShutdown(conn, done).
SpawnWatchdog(c) ==
    /\ conns[c].pc = "spawn"
    /\ conns' = [conns EXCEPT ![c].pc = "deadline", ![c].wd = "waiting"]
    /\ UNCHANGED otherRunVars
    /\ UNCHANGED initVars

\* Lines 222-224: conn.SetDeadline; it fails on a closed connection and may
\* fail otherwise.
ArmDeadline(c) ==
    /\ conns[c].pc = "deadline"
    /\ \/ /\ ~conns[c].closed
          /\ conns' = [conns EXCEPT ![c].pc = "invoke", ![c].deadline = TRUE]
       \/ conns' = Return(c, "deadline error")
    /\ UNCHANGED otherRunVars
    /\ UNCHANGED initVars

\* Variant of the lookup below that removes the entry it read.
RegistryAfterInvokeDeleting(name) == MapDelete(protocolHandlers, name)

\* The registry after the lookup g.protocolHandlers[handler] of line 226: a
\* map read leaves the map as it is.
RegistryAfterInvoke(name) == protocolHandlers

\* Lines 225-226: the context is derived and g.protocolHandlers[handler] is
\* called; calling a nil func panics.

InvokeHandler(c) ==
    /\ conns[c].pc = "invoke"
    /\ \/ /\ MapGet(protocolHandlers, conns[c].name) = Nil
          /\ conns' = [conns EXCEPT ![c].pc = "panicked"]
       \/ /\ MapGet(protocolHandlers, conns[c].name) # Nil
          /\ \E k \in HandlerKinds :
                conns' = [conns EXCEPT ![c].pc = "handler", ![c].invoked = TRUE,
                                       ![c].hkind = k]
    /\ protocolHandlers' = RegistryAfterInvoke(conns[c].name)
    /\ UNCHANGED otherRunVars
    /\ UNCHANGED <<rules, rules0, builtins, proxyFails, producersEnabled,
                   sshProxy, telnetProxy, Producer, connHandlers, registered, idx, phase,
                   idVars, produced>>

\* The handler returns: at any time (if ever) for one that is not blocked,
\* and once the connection is closed for one blocked on I/O.
HandlerReturn(c) ==
    /\ conns[c].pc = "handler"
    /\ \/ /\ conns[c].hkind = "returns"
          /\ \E r \in {"nil", "handler error"} :
                conns' = [conns EXCEPT ![c].pc = "send", ![c].hres = r, ![c].hkind = Nil]
       \/ /\ conns[c].hkind = "blocks"
          /\ conns[c].closed
          /\ conns' = [conns EXCEPT ![c].pc = "send", ![c].hres = "handler error",
                                   ![c].hkind = Nil]
    /\ UNCHANGED otherRunVars
    /\ UNCHANGED initVars

\* Lines 227-228: done <- struct{}{} on the unbuffered channel completes when
\* the watchdog receives; then the handler's result is returned.
SignalDone(c) ==
    /\ conns[c].pc = "send"
    /\ conns[c].wd = "waiting"
    /\ conns' = [conns EXCEPT ![c].pc = "returned", ![c].wd = "done",
                              ![c].signals = @ + 1, ![c].result = conns[c].hres,
                              ![c].hres = Nil]
    /\ UNCHANGED otherRunVars
    /\ UNCHANGED initVars

\* closeOnShutdown, the branch taken on the cancelled g.ctx: the connection
\* is closed and the watchdog returns.
WatchdogClose(c) ==
    /\ conns[c].wd = "waiting"
    /\ ctxDone
    /\ conns' = [conns EXCEPT ![c].wd = "cancelled", ![c].closed = TRUE]
    /\ UNCHANGED otherRunVars
    /\ UNCHANGED initVars

\* ---------------------------------------------------------------- Shutdown
\* Connections whose handler is blocked on I/O.
BlockedOnIO == {c \in ConnIds : conns[c].pc = "handler" /\ conns[c].hkind = "blocks"}

\* Variant of the entry below without the call of g.cancel().
ShutdownEnterWithoutCancel(k) ==
    /\ shutdown' = [shutdown EXCEPT ![k] = "sleep"]
    /\ UNCHANGED <<ctxDone, atCancel>>

\* Shutdown is entered: g.cancel() (line 246).
ShutdownEnter(k) ==
    /\ shutdown' = [shutdown EXCEPT ![k] = "sleep"]
    /\ ctxDone' = TRUE
    /\ atCancel' = IF ctxDone THEN atCancel ELSE BlockedOnIO

\* A Shutdown call from outside Start, on an instance that was started.
ShutdownCall ==
    /\ phase = "initialized"
    /\ start # "idle"
    /\ shutdown["ext"] \in {"idle", "returned"}
    /\ extCalls < MaxShutdownCalls
    /\ extCalls' = extCalls + 1
    /\ ShutdownEnter("ext")
    /\ UNCHANGED <<engine, conns, graceWaits, engineStops, start, monitor>>
    /\ UNCHANGED initVars

\* Variant of the wait below that lasts until every callback and watchdog
\* has finished.
ShutdownSleepDraining(k) ==
    /\ shutdown[k] = "sleep"
    /\ \A c \in ConnIds :
          conns[c].pc \in {"idle", "returned", "panicked"} /\ conns[c].wd # "waiting"
    /\ shutdown' = [shutdown EXCEPT ![k] = "stop"]
    /\ graceWaits' = graceWaits + 1
    /\ UNCHANGED <<ctxDone, engine, conns, extCalls, engineStops, start, monitor, atCancel>>
    /\ UNCHANGED initVars

\* time.Sleep(2 * time.Second) (line 258).
ShutdownSleep(k) ==
    /\ shutdown[k] = "sleep"
    /\ shutdown' = [shutdown EXCEPT ![k] = "stop"]
    /\ graceWaits' = graceWaits + 1
    /\ UNCHANGED <<ctxDone, engine, conns, extCalls, engineStops, start, monitor, atCancel>>
    /\ UNCHANGED initVars

\* return g.Processor.Shutdown() (line 259).
ShutdownStop(k) ==
    /\ shutdown[k] = "stop"
    /\ shutdown' = [shutdown EXCEPT ![k] = "returned"]
    /\ engineStops' = engineStops + 1
    /\ engine' = "stopped"
    /\ UNCHANGED <<ctxDone, conns, extCalls, graceWaits, start, monitor, atCancel>>
    /\ UNCHANGED initVars

\* ------------------------------------------------------------------- Start
\* Lines 111-118: the monitor is started and g.Processor.Start() is entered.
StartCall ==
    /\ phase = "initialized"
    /\ start = "idle"
    /\ start' = "processing"
    /\ monitor' = "running"
    /\ engine' = IF engine = "ready" THEN "running" ELSE engine
    /\ UNCHANGED <<ctxDone, conns, shutdown, extCalls, graceWaits, engineStops, atCancel>>
    /\ UNCHANGED initVars

\* g.Processor.Start() returns: after the engine was stopped, or with an
\* error of the processing loop.
ProcessorReturns ==
    /\ start = "processing"
    /\ \/ /\ engine = "stopped"
          /\ engine' = engine
       \/ /\ engine = "running"
          /\ engine' = "halted"
    /\ start' = "quit"
    /\ UNCHANGED <<ctxDone, conns, shutdown, extCalls, graceWaits, engineStops, monitor, atCancel>>
    /\ UNCHANGED initVars

\* The monitor goroutine started by startMonitor selects on its ticker and
\* on quit until it has received from quit.
MonitorReceivesQuit == monitor = "running"

\* The deferred function: quit <- struct{}{} is received by the monitor
\* (line 113), which stops.
StartQuit ==
    /\ start = "quit"
    /\ MonitorReceivesQuit
    /\ monitor' = "stopped"
    /\ start' = "shutdown"
    /\ UNCHANGED <<ctxDone, engine, conns, shutdown, extCalls, graceWaits, engineStops, atCancel>>
    /\ UNCHANGED initVars

\* The deferred function: g.Shutdown() (line 114).
StartShutdown ==
    /\ start = "shutdown"
    /\ shutdown["start"] = "idle"
    /\ ShutdownEnter("start")
    /\ UNCHANGED <<engine, conns, extCalls, graceWaits, engineStops, start, monitor>>
    /\ UNCHANGED initVars

\* Variant of the return below that does not wait for g.Shutdown().
StartReturnWithoutShutdown ==
    /\ start = "shutdown"
    /\ start' = "returned"
    /\ UNCHANGED <<ctxDone, engine, conns, shutdown, extCalls, graceWaits, engineStops, monitor, atCancel>>
    /\ UNCHANGED initVars

\* Start returns once the deferred function is over.
StartReturn ==
    /\ start = "shutdown"
    /\ shutdown["start"] = "returned"
    /\ start' = "returned"
    /\ UNCHANGED <<ctxDone, engine, conns, shutdown, extCalls, graceWaits, engineStops, monitor, atCancel>>
    /\ UNCHANGED initVars

\* ----------------------------------------------- ConnectionByFlow, Produce
\* ConnectionByFlow reads the packet engine's connection table.
ConnectionByFlow ==
    /\ phase = "initialized"
    /\ UNCHANGED vars

\* Outcomes of p.Log(conn, md, payload): with a producer the record is
\* accepted or rejected; on a nil *producer.Producer the method reads the
\* fields of its receiver, a nil pointer dereference.
LogOutcomes(p) == IF p = Nil THEN {"panic"} ELSE {"nil", "telemetry error"}

\* Produce: return g.Producer.Log(conn, md, payload), with no test of
\* g.Producer (lines 239-241).
Produce ==
    /\ phase = "initialized"
    /\ produced' \in LogOutcomes(Producer)
    /\ UNCHANGED <<rules, rules0, builtins, proxyFails, producersEnabled, protocolHandlers,
                   sshProxy, telnetProxy, Producer, connHandlers, registered, idx, phase, idVars>>
    /\ UNCHANGED <<conns, ctxDone, engine, shutdown, extCalls, graceWaits, engineStops, start,
                   monitor, atCancel>>

Next ==
    \/ GluttonInit
    \/ RegisterRule
    \/ InitReturn
    \/ \E c \in ConnIds :
        \/ Dispatch(c)
        \/ EmitTelemetry(c)
        \/ SpawnWatchdog(c)
        \/ ArmDeadline(c)
        \/ InvokeHandler(c)
        \/ HandlerReturn(c)
        \/ SignalDone(c)
        \/ WatchdogClose(c)
    \/ ShutdownCall
    \/ \E k \in Callers : ShutdownSleep(k) \/ ShutdownStop(k)
    \/ StartCall
    \/ ProcessorReturns
    \/ StartQuit
    \/ StartShutdown
    \/ StartReturn
    \/ ConnectionByFlow
    \/ Produce

Spec == Init /\ [][Next]_vars

\* ------------------------------------------- claims on the running system
\* A Shutdown call has returned.
Stopped == engineStops >= 1

Finished(c) == conns[c].pc \in {"idle", "returned", "panicked"}

\* C1: once Shutdown has returned, no dispatch callback and no watchdog
\* started by the dispatcher is still running or blocked.
C1_NoTaskOutlivesShutdown ==
    Stopped => \A c \in ConnIds : Finished(c) /\ conns[c].wd # "waiting"

C3_DoneSignalledThenReturn ==
    \A c \in ConnIds :
        /\ conns[c].pc = "send" => conns[c].wd = "waiting"
        /\ (conns[c].pc = "returned" /\ conns[c].invoked) =>
               (conns[c].signals = 1 /\ conns[c].result \in {"nil", "handler error"})

\* C4: Stopped is reached once; a second Shutdown call neither runs the
\* grace wait again nor stops the packet engine a second time.
C4_ShutdownIdempotent == graceWaits <= 1 /\ engineStops <= 1

\* C8: with a telemetry sink configured, the handler is invoked only after
\* the record of the connection was emitted, and a failed emission returns
\* that error with no handler invocation, no watchdog and no deadline.
C8_TelemetryPrecedesHandler ==
    Producer # Nil =>
        \A c \in ConnIds :
            /\ conns[c].invoked => conns[c].logged
            /\ conns[c].wd # "none" => conns[c].logged
            /\ conns[c].deadline => conns[c].logged
            /\ conns[c].result = "telemetry error" =>
                   /\ conns[c].pc = "returned"
                   /\ ~conns[c].logged
                   /\ ~conns[c].invoked
                   /\ conns[c].wd = "none"
                   /\ ~conns[c].deadline

C8_Witness ==
    /\ Producer # Nil
    /\ \E c \in ConnIds :
          /\ conns[c].pc = "returned"
          /\ conns[c].invoked
          /\ conns[c].logged

\* C9: a callback invoked with absent metadata and a well-formed peer
\* address returns nil and has no effect: no handler invocation, no
\* telemetry, no watchdog, no deadline, no close.
C9_UntrackedNoop ==
    \A c \in ConnIds :
        conns[c].md = Nil =>
            /\ conns[c].pc = "returned"
            /\ conns[c].result = "nil"
            /\ ~conns[c].invoked
            /\ ~conns[c].logged
            /\ conns[c].wd = "none"
            /\ ~conns[c].deadline
            /\ ~conns[c].closed

C9_Witness ==
    \E c \in ConnIds :
        /\ conns[c].md = Nil
        /\ conns[c].pc = "returned"
        /\ conns[c].result = "nil"
        /\ Producer # Nil

\* C10: once Init has returned, no operation adds, removes or replaces an
\* entry of protocolHandlers.
InitHasReturned == phase \in {"initialized", "initfailed"}

C10_RegistryWriteOnce == [][InitHasReturned => protocolHandlers' = protocolHandlers]_vars

C10_Witness ==
    /\ phase = "initialized"
    /\ start = "returned"
    /\ extCalls >= 1
    /\ \E c \in ConnIds : conns[c].invoked /\ conns[c].pc = "returned"

\* ------------------------------------------------- claims on the registrar
RegistrationOver == phase # "created" /\ idx > Len(rules)

\* The registrar state registerHandlers starts from.
RegistrarState0 == [ph |-> [k \in builtins |-> k], ssh |-> Nil, telnet |-> Nil, ch |-> {}]

\* The list s without its element at position k, and the positions after k
\* shifted down accordingly.
RemoveAt(s, k) == [j \in 1..(Len(s) - 1) |-> IF j < k THEN s[j] ELSE s[j + 1]]
ShiftDown(S, k) == {IF j < k THEN j ELSE j - 1 : j \in S \ {k}}

\* C5: after registerHandlers a callback has been registered for rule R iff
\* R.Type = "conn_handler", R.Target is non-empty and the registry resolves a
\* handler for R's (possibly rewritten) target name.  A rule whose proxy
\* construction failed is read as not resolvable, the reading most
\* favourable to the claim.
C5_RuleEligibility ==
    RegistrationOver =>
        \A i \in 1..Len(rules0) :
            (i \in registered) <=>
                /\ Eligible(rules0[i])
                /\ i \notin proxyFails
                /\ MapGet(protocolHandlers, HandlerName(rules0[i])) # Nil

\* C6: a rule whose SSH or Telnet proxy construction fails gets no callback,
\* the loop runs to its end, and the callbacks of the other rules are those
\* registered for the same list without that rule.
C6_FailureIsolation ==
    RegistrationOver =>
        \A f \in proxyFails :
            LET without == RegisterFrom(RegistrarState0, RemoveAt(rules0, f),
                                        ShiftDown(proxyFails, f), 1, {})
            IN  /\ f \notin registered
                /\ ShiftDown(registered, f) = without.registered
                /\ connHandlers = without.st.ch

C6_Witness ==
    /\ RegistrationOver
    /\ proxyFails # {}
    /\ registered # {}
    /\ \E f \in proxyFails : \E i \in registered : i > f

\* The step of the loop over an eligible proxy_tcp rule while a generic relay
\* handler is registered under "proxy_tcp".
RelayRuleProcessed ==
    /\ phase = "registering"
    /\ idx <= Len(rules)
    /\ idx' = idx + 1
    /\ Eligible(rules[idx])
    /\ rules[idx].Name = ProxyTCP
    /\ MapGet(protocolHandlers, ProxyTCP) # Nil

RelayRenamed ==
    /\ MapGet(protocolHandlers', rules[idx].Target) = MapGet(protocolHandlers, ProxyTCP)
    /\ ProxyTCP \notin DOMAIN protocolHandlers'
    /\ rules[idx].Target \in connHandlers'
    /\ idx \in registered'

\* C7 as stated: for any eligible proxy_tcp rule with target T and a relay
\* handler H under "proxy_tcp", processing the rule leaves T mapped to H,
\* "proxy_tcp" no registry key and the callback registered under T.
C7_RelayRenameOriginal == [][RelayRuleProcessed => RelayRenamed]_vars

\* C7 amended: the same for every target T other than "proxy_tcp" itself.
C7_RelayRename ==
    [][(RelayRuleProcessed /\ rules[idx].Target # ProxyTCP) => RelayRenamed]_vars

C7_Witness ==
    \E i \in registered :
        /\ idx = i + 1
        /\ rules0[i].Name = ProxyTCP
        /\ rules0[i].Target = "8080"
        /\ MapGet(protocolHandlers, "8080") = ProxyTCP
        /\ ProxyTCP \notin DOMAIN protocolHandlers
        /\ "8080" \in connHandlers
\* C11 as stated: registerHandlers leaves the Type, Name and Target of every
\* rule of the list as loaded, rules named proxy_ssh and proxy_telnet
\* included.
C11_RulesReadOnly == rules = rules0

\* The rule at position i has been processed by the loop and is an eligible
\* proxy_ssh or proxy_telnet rule whose proxy construction succeeded.
ProxyBuilt(i) ==
    /\ i < idx
    /\ phase # "created"
    /\ rules0[i].Type = ConnHandlerType
    /\ rules0[i].Target # ""
    /\ rules0[i].Name \in {ProxySSH, ProxyTelnet}
    /\ i \notin proxyFails

\* C11 amended: registerHandlers leaves the length of the list and the Type
\* and Name of every rule unchanged, and the Target of every rule unchanged
\* except that of an eligible proxy_ssh or proxy_telnet rule whose proxy
\* construction succeeded, whose Target becomes the rule's Name.
C11_OnlyProxyTargetsRewritten ==
    /\ Len(rules) = Len(rules0)
    /\ \A i \in 1..Len(rules0) :
          /\ rules[i].Type = rules0[i].Type
          /\ rules[i].Name = rules0[i].Name
          /\ rules[i].Target = IF ProxyBuilt(i) THEN rules0[i].Name ELSE rules0[i].Target

C11_Witness ==
    /\ RegistrationOver
    /\ \E i \in 1..Len(rules0) : ProxyBuilt(i) /\ rules[i].Target = ProxySSH
    /\ \E i \in 1..Len(rules0) : rules0[i].Name = ProxyTelnet /\ i \in proxyFails

\* ------------------------------------------------------- claims on makeID
\* A step of a makeID call.
IDCall == idCalls' = idCalls + 1

\* C12: in any sequence of makeID calls on one storage directory, glutton.id
\* is written only by a call that finds it absent; a call that returns an
\* identity returns the one first persisted, which never changes; a call
\* that finds an existing file neither writes nor generates; and a file of
\* bytes that do not parse makes the call return an error.
C12_IdentityIdempotence ==
    [][IDCall =>
         /\ (idFile' # idFile \/ idWrites' # idWrites) => ~idFile.exists
         /\ persisted # <<>> => persisted' = persisted
         /\ idResult' = "ok" => Bytes(id') = persisted'
         /\ idFile.exists => (id' = ZeroUUID \/ Bytes(id') = idFile.bytes)
         /\ (idFile.exists /\ Len(idFile.bytes) # UUIDSize) => idResult' # "ok"
      ]_vars

C12_Witness ==
    /\ idCalls >= 2
    /\ idWrites = 1
    /\ idResult = "ok"
    /\ idFile = File(persisted)
    /\ Bytes(id) = persisted
    /\ id = NewV4(255)

\* ------------------------------------- further claims on the running system
\* C13: whenever a callback has returned and the global signal is not
\* cancelled, the watchdog it spawned has terminated: every return path taken
\* after the spawn has signalled the done channel.
C13_WatchdogEndsWithCallback ==
    \A c \in ConnIds :
        (conns[c].pc = "returned" /\ ~ctxDone) => conns[c].wd # "waiting"

\* C14: a callback registered under name N that reaches the handler
\* invocation finds a non-nil protocolHandlers[N] at that moment, whatever
\* the rules processed after its registration.
C14_CallbackFindsHandler ==
    \A c \in ConnIds :
        conns[c].pc = "invoke" => MapGet(protocolHandlers, conns[c].name) # Nil

\* C15: in every execution of Shutdown the global signal is cancelled first,
\* then the grace wait elapses, then the packet engine is stopped: a call
\* past its entry has cancelled g.ctx, every engine stop follows a grace wait
\* of the same call, and no watchdog has closed a connection and the engine
\* has not been stopped while g.ctx is not cancelled.
C15_ShutdownOrdering ==
    /\ \A k \in Callers : shutdown[k] # "idle" => ctxDone
    /\ graceWaits = engineStops + Cardinality({k \in Callers : shutdown[k] = "stop"})
    /\ (engineStops >= 1 \/ engine = "stopped") => ctxDone
    /\ \A c \in ConnIds : (conns[c].closed \/ conns[c].wd = "cancelled") => ctxDone

C15_Witness ==
    /\ engineStops >= 1
    /\ graceWaits >= 1
    /\ \E c \in ConnIds : conns[c].closed /\ conns[c].wd = "cancelled"

\* The scheduler runs a goroutine that is inside Shutdown: its sleep ends and
\* its call of g.Processor.Shutdown is made.  Nothing is assumed of the
\* callbacks, the handlers and the watchdogs.
ShutdownFairness ==
    \A k \in Callers : WF_vars(ShutdownSleep(k)) /\ WF_vars(ShutdownStop(k))

SpecShutdown == Init /\ [][Next]_vars /\ ShutdownFairness

\* C16: a Shutdown call made after Init reaches the stop of the packet
\* engine after its grace wait, whatever the connection tasks do: neither
\* step of Shutdown waits for a callback or a watchdog.
C16_ShutdownTerminates ==
    \A k \in Callers : (shutdown[k] = "sleep") ~> (shutdown[k] = "returned")

C16_Witness ==
    /\ engineStops >= 1
    /\ \E k \in Callers : shutdown[k] = "returned"
    /\ \E c \in ConnIds : conns[c].pc = "handler" /\ conns[c].hkind = "blocks" /\ ~conns[c].closed

\* The scheduler runs the goroutine of Start and the monitor, and a
\* goroutine inside Shutdown; nothing is assumed of the connection tasks.
StartFairness ==
    /\ WF_vars(StartQuit)
    /\ WF_vars(StartShutdown)
    /\ WF_vars(StartReturn)
    /\ ShutdownFairness

SpecStart == Init /\ [][Next]_vars /\ StartFairness

\* Start is past the return of g.Processor.Start().
ProcessorStartReturned == start \in {"quit", "shutdown", "returned"}

\* C17: once g.Processor.Start() has returned, with or without an error,
\* Start signals the monitor to stop, once, then runs Shutdown, and returns
\* only after that: the monitor is stopped exactly from the signal on, the
\* Shutdown of Start begins only after the signal, a returned Start has
\* g.ctx cancelled and the engine stopped, and Start does not stay blocked
\* on the way.
C17_StartRunsShutdown ==
    /\ [](monitor = "stopped" <=> start \in {"shutdown", "returned"})
    /\ [](shutdown["start"] # "idle" => (start \in {"shutdown", "returned"} /\ ctxDone))
    /\ [](start = "returned" =>
             (ctxDone /\ engine = "stopped" /\ shutdown["start"] = "returned"))
    /\ (ProcessorStartReturned ~> (start = "returned"))

C17_Witness ==
    /\ start = "returned"
    /\ engine = "stopped"
    /\ monitor = "stopped"
    /\ extCalls = 0
    /\ graceWaits = 1
    /\ ctxDone

\* C18: with no producer configured every telemetry emission point completes
\* without error and without fault: Produce returns nil, and the callback
\* returns no telemetry error, emits nothing and goes on to the watchdog, the
\* deadline and the handler.
C18_AbsentSinkNoop ==
    Producer = Nil =>
        /\ produced \in {"none", "nil"}
        /\ \A c \in ConnIds : conns[c].result # "telemetry error" /\ ~conns[c].logged
====
